---- MODULE Spec2Model ----
(***************************************************************************)
(* A model of 18F/authdelegate: the configuration validator                *)
(* (AuthDelegateOptions.Validate, src/delegate_test.go:170-372), the       *)
(* request dispatcher (authDelegateHandler, src/delegate.go:1-69) and the  *)
(* start-up sequence (src/main.go).                                        *)
(*                                                                         *)
(* Strings are Go strings.  An error value is the sequence of the lines    *)
(* of its text (errors.New joins them with "\n  "); the nil error is <<>>. *)
(* A pointer that may be nil is a record with a field "nil".  A value      *)
(* that is used several times is passed to a LET operator as its argument. *)
(***************************************************************************)
EXTENDS Integers, Sequences, FiniteSets, TLC

VARIABLES
    pc,         \* src/main.go:21-51, the caller's position: "main", "configured",
                \* "serving", "exit" (os.Exit(1)), "panic"; "test" in a test
    config,     \* src/main.go:28, configBytes handed to json.Unmarshal
    opts,       \* the AuthDelegateOptions (Upstreams carry parsedURL)
    err,        \* the error NewAuthDelegateOptionsFromJSON / Validate returned
    handler,    \* src/delegate.go:24-26, authDelegateHandler.upstreams
    req,        \* src/delegate.go:29, the inbound request of the ServeHTTP call
                \* in progress                                 (<<>> or <<r>>)
    outreq,     \* src/delegate.go:58-67, the request the selected proxy sent
                \* upstream, as its Director left it           (<<>> or <<r>>)
    selected,   \* src/delegate.go:30-34, index of the rule forwarded to, or 0
    upstream,   \* what the upstream answered                   (<<>> or <<a>>)
    recorder,   \* src/delegate.go:29, the response written to the caller
                \*                                              (<<>> or <<w>>)
    inflight    \* src/delegate.go:28-37 and 58-67, the ServeHTTP calls that
                \* the server's goroutines run at the same time on the one
                \* handler: per goroutine its position, its request, the
                \* rule it selected and the outbound request

vars == <<pc, config, opts, err, handler, req, outreq, selected, upstream, recorder, inflight>>

-----------------------------------------------------------------------------
(* Bounds *)

\* longest upstream list of a configuration
MaxUpstreams == 2

\* number of requests the server handles at the same time
MaxInFlight == 2

\* longest upstream list of a configuration that repeats names
MaxNamedUpstreams == 4

-----------------------------------------------------------------------------
(* Small helpers *)

Range(s) == {s[i] : i \in 1..Len(s)}

SeqsUpTo(S, n) == UNION {[1..k -> S] : k \in 0..n}

\* every order in which the keys of a Go map may be ranged over
Orders(S) == {o \in [1..Cardinality(S) -> S] : Range(o) = S}

RECURSIVE Join(_, _)
\* strings.Join
Join(names, sep) ==
    IF Len(names) = 0 THEN ""
    ELSE IF Len(names) = 1 THEN names[1]
    ELSE names[1] \o sep \o Join(Tail(names), sep)

-----------------------------------------------------------------------------
(* net/url and os, as far as the program uses them *)

NilURL == [nil |-> TRUE, Scheme |-> "", Host |-> "", Path |-> "", RawQuery |-> ""]

URL(scheme, host, path, query) ==
    [nil |-> FALSE, Scheme |-> scheme, Host |-> host, Path |-> path, RawQuery |-> query]

\* the upstream url strings a configuration may hold
RawURLs == {"http://a.test/auth", "https://b.test/x?k=v", "a.test/auth",
            "gopher://a.test/auth", ":bad"}

\* url.Parse on those strings: (url, error text), error text "" for nil
urlParse(raw) ==
    CASE raw = "http://a.test/auth"   -> [url |-> URL("http", "a.test", "/auth", ""), err |-> ""]
      [] raw = "https://b.test/x?k=v" -> [url |-> URL("https", "b.test", "/x", "k=v"), err |-> ""]
      [] raw = "a.test/auth"          -> [url |-> URL("", "", "a.test/auth", ""), err |-> ""]
      [] raw = "gopher://a.test/auth" -> [url |-> URL("gopher", "a.test", "/auth", ""), err |-> ""]
      [] raw = "http://127.0.0.1:1"   -> [url |-> URL("http", "127.0.0.1:1", "", ""), err |-> ""]
      [] raw = "http://127.0.0.1:2"   -> [url |-> URL("http", "127.0.0.1:2", "", ""), err |-> ""]
      [] OTHER -> [url |-> NilURL, err |-> "parse " \o raw \o ": missing protocol scheme"]

\* os.Stat on the paths a configuration may name
osStat(path) ==
    CASE path = "ok.pem"      -> "regular"
      [] path = "dir.pem"     -> "directory"
      [] path = "denied.pem"  -> "permission"
      [] OTHER                -> "notexist"

-----------------------------------------------------------------------------
(* AuthDelegateOptions and its validation *)

HeaderNames == {"", "X-Sig", "x-sig"}
CookieNames == {"", "_c"}

AuthDelegateUpstream(url, header, cookie) ==
    [URL |-> url, HeaderName |-> header, CookieName |-> cookie, parsedURL |-> NilURL]

validatePort(o, msgs) ==
    IF o.Port <= 0
    THEN Append(msgs, "port must be specified and greater than zero")
    ELSE msgs

checkExistenceAndPermission(path, optionName, msgs) ==
    LET st == osStat(path) IN
    IF st = "notexist" THEN Append(msgs, optionName \o " does not exist: " \o path)
    ELSE IF st = "permission" THEN Append(msgs, optionName \o " permission is denied: " \o path)
    ELSE IF st # "regular" THEN Append(msgs, optionName \o " is not a regular file: " \o path)
    ELSE msgs

validateSsl(o, msgs) ==
    LET certSpecified == o.SslCert # ""
        keySpecified == o.SslKey # ""
        Key(m2) == IF keySpecified
                   THEN checkExistenceAndPermission(o.SslKey, "ssl-key", m2)
                   ELSE m2
        Cert(m1) == Key(IF certSpecified
                        THEN checkExistenceAndPermission(o.SslCert, "ssl-cert", m1)
                        ELSE m1)
    IN  IF ~(certSpecified \/ keySpecified) THEN msgs
        ELSE Cert(IF ~(certSpecified /\ keySpecified)
                  THEN Append(msgs, "ssl-cert and ssl-key must both be specified, or neither must be")
                  ELSE msgs)

\* The result carries the upstream with parsedURL assigned.  When url.Parse
\* fails parsedURL is nil and reading parsedURL.Scheme panics.
validateUpstream(up, msgs) ==
    LET Names(m2, parsed) ==
            [panic |-> FALSE,
             msgs |-> IF up.HeaderName # "" /\ up.CookieName # ""
                      THEN Append(m2, "both header_name and cookie_name defined: " \o up.URL)
                      ELSE m2,
             upstream |-> parsed]
        Scheme(scheme, m1, parsed) ==
            Names(IF scheme = ""
                  THEN Append(m1, "upstream scheme not specified: " \o up.URL)
                  ELSE IF ~(scheme = "http" \/ scheme = "https")
                  THEN Append(m1, "invalid upstream scheme: " \o up.URL)
                  ELSE m1, parsed)
        Parsed(p, m1) ==
            IF p.url.nil
            THEN [panic |-> TRUE, msgs |-> m1, upstream |-> [up EXCEPT !.parsedURL = p.url]]
            ELSE Scheme(p.url.Scheme, m1, [up EXCEPT !.parsedURL = p.url])
        Parse(p) ==
            Parsed(p, IF p.err # ""
                      THEN Append(msgs, "upstream URL failed to parse" \o p.err)
                      ELSE msgs)
    IN  Parse(urlParse(up.URL))

\* counts: the map from name to appearances; order: the order in which the
\* range statement visits the keys left after delete(counts, "")
validateNameCounts(category, counts, order, msgs) ==
    LET repeatedNames == SelectSeq(order, LAMBDA name : counts[name] > 1)
    IN  IF Len(repeatedNames) # 0
        THEN Append(msgs, "repeated " \o category \o ": " \o Join(repeatedNames, ", "))
        ELSE msgs

validateDefaultUpstreams(defaultUpstreams, lastUpstream, msgs) ==
    LET numDefaults == Len(defaultUpstreams) IN
    IF numDefaults = 0 THEN msgs
    ELSE LET lastDefault == defaultUpstreams[numDefaults] IN
         IF numDefaults > 1
         THEN Append(msgs, "multiple upstreams without header_name or cookie_name")
         ELSE IF lastDefault # lastUpstream.URL
         THEN Append(msgs, "upstream without header_name or cookie_name not last in upstream list: "
                                \o lastDefault)
         ELSE msgs

\* the map a loop of counts[name]++ over the upstreams builds
NameCounts(ups, field) ==
    [name \in {ups[i][field] : i \in 1..Len(ups)} |->
        Cardinality({i \in 1..Len(ups) : ups[i][field] = name})]

RECURSIVE validateUpstreamsLoop(_, _, _)
\* the for loop of validateUpstreams from index i on; st = [panic, msgs, ups]
validateUpstreamsLoop(st, i, n) ==
    IF i > n \/ st.panic THEN st
    ELSE LET Step(r) == validateUpstreamsLoop(
                            [panic |-> r.panic, msgs |-> r.msgs,
                             ups |-> [st.ups EXCEPT ![i] = r.upstream]], i + 1, n)
         IN  Step(validateUpstream(st.ups[i], st.msgs))

\* validateUpstreams past its first return, for a list that is not empty
validateUpstreamsRest(o, cookieOrder, headerOrder, msgs) ==
    LET numUpstreams == Len(o.Upstreams)
        defaultUpstreams ==
            LET Urls(idx) == [k \in 1..Len(idx) |-> o.Upstreams[idx[k]].URL]
            IN  Urls(SelectSeq([i \in 1..numUpstreams |-> i],
                        LAMBDA i : o.Upstreams[i].HeaderName = ""
                                   /\ o.Upstreams[i].CookieName = ""))
        AfterLoop(loop) ==
            IF loop.panic THEN loop
            ELSE [panic |-> FALSE,
                  msgs |-> validateDefaultUpstreams(defaultUpstreams, o.Upstreams[numUpstreams],
                             validateNameCounts("header names",
                                 NameCounts(o.Upstreams, "HeaderName"), headerOrder,
                                 validateNameCounts("cookie names",
                                     NameCounts(o.Upstreams, "CookieName"), cookieOrder,
                                     loop.msgs))),
                  ups |-> loop.ups]
    IN  AfterLoop(validateUpstreamsLoop(
                      [panic |-> FALSE, msgs |-> msgs, ups |-> o.Upstreams], 1, numUpstreams))

\* validateUpstreams with the return of its first branch dropped: the
\* message is appended and opts.Upstreams[numUpstreams-1] is then read
validateUpstreams_NoReturn(o, cookieOrder, headerOrder, msgs) ==
    IF Len(o.Upstreams) = 0
    THEN [panic |-> TRUE, msgs |-> Append(msgs, "no upstreams defined"), ups |-> o.Upstreams]
    ELSE validateUpstreamsRest(o, cookieOrder, headerOrder, msgs)

validateUpstreams(o, cookieOrder, headerOrder, msgs) ==
    IF Len(o.Upstreams) = 0
    THEN [panic |-> FALSE, msgs |-> Append(msgs, "no upstreams defined"), ups |-> o.Upstreams]
    ELSE validateUpstreamsRest(o, cookieOrder, headerOrder, msgs)

\* the keys a name map holds once "" is deleted
NameKeys(o, field) == {o.Upstreams[i][field] : i \in 1..Len(o.Upstreams)} \ {""}

\* AuthDelegateOptions.Validate: [panic, err, opts]
Validate(o, cookieOrder, headerOrder) ==
    LET Return(r) ==
            [panic |-> r.panic,
             err   |-> IF ~r.panic /\ Len(r.msgs) # 0
                       THEN <<"Invalid options:">> \o r.msgs ELSE <<>>,
             opts  |-> [o EXCEPT !.Upstreams = r.ups]]
    IN  Return(validateUpstreams(o, cookieOrder, headerOrder,
                   validateSsl(o, validatePort(o, <<>>))))

\* JSON text that json.Unmarshal rejects
Malformed == [malformed |-> TRUE, Port |-> 0, SslCert |-> "", SslKey |-> "", Upstreams |-> <<>>]

NilOpts == [nil |-> TRUE, Port |-> 0, SslCert |-> "", SslKey |-> "", Upstreams |-> <<>>]

\* json.Unmarshal into an AuthDelegateOptions: absent keys leave zero values,
\* the unexported parsedURL stays nil
jsonUnmarshal(bytes) ==
    IF bytes.malformed
    THEN [err |-> "unexpected end of JSON input", opts |-> NilOpts]
    ELSE [err |-> "",
          opts |-> [nil |-> FALSE, Port |-> bytes.Port, SslCert |-> bytes.SslCert,
                    SslKey |-> bytes.SslKey,
                    Upstreams |-> [i \in 1..Len(bytes.Upstreams) |->
                        AuthDelegateUpstream(bytes.Upstreams[i].url,
                                             bytes.Upstreams[i].header_name,
                                             bytes.Upstreams[i].cookie_name)]]]

\* NewAuthDelegateOptionsFromJSON with the error of Validate dropped: the
\* options are returned with a nil error whenever the JSON parses
NewAuthDelegateOptionsFromJSON_ErrorDropped(bytes, cookieOrder, headerOrder) ==
    LET Validated(v) ==
            IF v.panic THEN [panic |-> TRUE, err |-> <<>>, opts |-> NilOpts]
            ELSE [panic |-> FALSE, err |-> <<>>, opts |-> v.opts]
        Unmarshalled(u) ==
            IF u.err # ""
            THEN [panic |-> FALSE, err |-> <<"JSON parsing failed: " \o u.err>>, opts |-> NilOpts]
            ELSE Validated(Validate(u.opts, cookieOrder, headerOrder))
    IN  Unmarshalled(jsonUnmarshal(bytes))

\* [panic, err, opts]: opts is nil whenever err is not
NewAuthDelegateOptionsFromJSON(bytes, cookieOrder, headerOrder) ==
    LET Validated(v) ==
            IF v.panic THEN [panic |-> TRUE, err |-> <<>>, opts |-> NilOpts]
            ELSE IF v.err # <<>> THEN [panic |-> FALSE, err |-> v.err, opts |-> NilOpts]
            ELSE [panic |-> FALSE, err |-> <<>>, opts |-> v.opts]
        Unmarshalled(u) ==
            IF u.err # ""
            THEN [panic |-> FALSE, err |-> <<"JSON parsing failed: " \o u.err>>, opts |-> NilOpts]
            ELSE Validated(Validate(u.opts, cookieOrder, headerOrder))
    IN  Unmarshalled(jsonUnmarshal(bytes))

-----------------------------------------------------------------------------
(* net/http, as far as the program uses it *)

\* textproto.CanonicalMIMEHeaderKey on the header names in use
CanonicalMIMEHeaderKey(name) ==
    CASE name = "x-sig"          -> "X-Sig"
      [] name = "X-Original-URI" -> "X-Original-Uri"
      [] OTHER                   -> name

\* http.Header.Get: the first value stored under the canonical key, or ""
HeaderGet(h, name) ==
    LET key == CanonicalMIMEHeaderKey(name) IN
    IF key \in DOMAIN h /\ Len(h[key]) > 0 THEN h[key][1] ELSE ""

\* http.Header.Set: replaces the values stored under the canonical key
HeaderSet(h, name, value) ==
    LET key == CanonicalMIMEHeaderKey(name) IN
    [k \in DOMAIN h \cup {key} |-> IF k = key THEN <<value>> ELSE h[k]]

\* http.Request.Cookie: TRUE iff it returns http.ErrNoCookie
ErrNoCookie(r, name) == ~ \E i \in 1..Len(r.Cookies) : r.Cookies[i].Name = name

\* the request line's target, parsed by the server into Request.URL
parseRequestURI(target) ==
    CASE target = "/bar?quux" -> URL("", "", "/bar", "quux")
      [] OTHER                -> URL("", "", target, "")

HasPrefixSlash(s) == s \in {"/", "/bar", "/auth", "/x"}
HasSuffixSlash(s) == s \in {"/"}
TrimSlash(s) == CASE s = "/bar" -> "bar" [] s = "/auth" -> "auth" [] s = "/x" -> "x" [] OTHER -> ""

\* httputil.singleJoiningSlash
singleJoiningSlash(a, b) ==
    IF HasSuffixSlash(a) /\ HasPrefixSlash(b) THEN a \o TrimSlash(b)
    ELSE IF ~HasSuffixSlash(a) /\ ~HasPrefixSlash(b) THEN a \o "/" \o b
    ELSE a \o b

\* the Director that httputil.NewSingleHostReverseProxy(target) installs
singleHostDirector(target, r) ==
    [r EXCEPT !.URL = [nil |-> FALSE,
                       Scheme |-> target.Scheme,
                       Host |-> target.Host,
                       Path |-> singleJoiningSlash(target.Path, r.URL.Path),
                       RawQuery |-> IF target.RawQuery = "" \/ r.URL.RawQuery = ""
                                    THEN target.RawQuery \o r.URL.RawQuery
                                    ELSE target.RawQuery \o "&" \o r.URL.RawQuery]]

StatusUnauthorized == 401
StatusBadGateway == 502

-----------------------------------------------------------------------------
(* The dispatcher *)

\* the Director without its last statement, req.URL = url
Director_KeepsJoinedURL(url, r) ==
    LET Rest(r1, origURI) ==
            IF origURI = ""
            THEN [r1 EXCEPT !.Header = HeaderSet(r1.Header, "X-Original-URI", r1.RequestURI)]
            ELSE r1
        Directed(r1) == Rest(r1, HeaderGet(r1.Header, "X-Original-URI"))
    IN  Directed(singleHostDirector(url, r))

\* the Director of the proxy newAuthDelegateReverseProxy(url) returns
Director(url, r) ==
    LET SetURL(r2) == [r2 EXCEPT !.URL = url]
        Rest(r1, origURI) ==
            SetURL(IF origURI = ""
                   THEN [r1 EXCEPT !.Header =
                            HeaderSet(r1.Header, "X-Original-URI", r1.RequestURI)]
                   ELSE r1)
        Directed(r1) == Rest(r1, HeaderGet(r1.Header, "X-Original-URI"))
    IN  Directed(singleHostDirector(url, r))

\* a proxy that copies the upstream's body and not its status line
proxyServeHTTP_StatusDropped(url, r, answer) ==
    [outreq |-> Director(url, r),
     recorder |-> IF answer.ok
                  THEN [Code |-> 200, Body |-> answer.Body]
                  ELSE [Code |-> StatusBadGateway, Body |-> ""]]

\* httputil.ReverseProxy.ServeHTTP of the proxy bound to url: the request
\* sent upstream and the response relayed to the caller
proxyServeHTTP(url, r, answer) ==
    [outreq |-> Director(url, r),
     recorder |-> IF answer.ok
                  THEN [Code |-> answer.Code, Body |-> answer.Body]
                  ELSE [Code |-> StatusBadGateway, Body |-> ""]]

NewAuthDelegate(o) ==
    [i \in 1..Len(o.Upstreams) |->
        [headerName |-> o.Upstreams[i].HeaderName,
         cookieName |-> o.Upstreams[i].CookieName,
         url |-> o.Upstreams[i].parsedURL]]

\* accepts with a last statement of return false
accepts_NoDefault(delegate, r) ==
    IF delegate.headerName # "" THEN HeaderGet(r.Header, delegate.headerName) # ""
    ELSE IF delegate.cookieName # "" THEN ~ErrNoCookie(r, delegate.cookieName)
    ELSE FALSE

accepts(delegate, r) ==
    IF delegate.headerName # "" THEN HeaderGet(r.Header, delegate.headerName) # ""
    ELSE IF delegate.cookieName # "" THEN ~ErrNoCookie(r, delegate.cookieName)
    ELSE TRUE

RECURSIVE firstAccepting(_, _, _)
\* the range loop of ServeHTTP from index i on: the index it returns at, or 0
firstAccepting(h, r, i) ==
    IF i > Len(h) THEN 0
    ELSE IF accepts(h[i], r) THEN i
    ELSE firstAccepting(h, r, i + 1)

\* ServeHTTP falling back to the last upstream when the loop selects none
ServeHTTP_FallbackToLast(h, r, answer) ==
    LET Proxied(i, p) ==
            [selected |-> i, outreq |-> <<p.outreq>>, upstream |-> <<answer>>,
             recorder |-> <<p.recorder>>]
        Selected(i) ==
            IF i # 0
            THEN Proxied(i, proxyServeHTTP(h[i].url, r, answer))
            ELSE [selected |-> 0, outreq |-> <<>>, upstream |-> <<>>,
                  recorder |-> <<[Code |-> StatusUnauthorized,
                                  Body |-> "unauthorized request\n"]>>]
        Fallback(f) == Selected(IF f = 0 THEN Len(h) ELSE f)
    IN  Fallback(firstAccepting(h, r, 1))

\* authDelegateHandler.ServeHTTP
ServeHTTP(h, r, answer) ==
    LET Proxied(i, p) ==
            [selected |-> i, outreq |-> <<p.outreq>>, upstream |-> <<answer>>,
             recorder |-> <<p.recorder>>]
        Selected(i) ==
            IF i # 0
            THEN Proxied(i, proxyServeHTTP(h[i].url, r, answer))
            ELSE [selected |-> 0, outreq |-> <<>>, upstream |-> <<>>,
                  recorder |-> <<[Code |-> StatusUnauthorized,
                                  Body |-> "unauthorized request\n"]>>]
    IN  Selected(firstAccepting(h, r, 1))

-----------------------------------------------------------------------------
(* The inputs *)

Ports == {0, 443}
CertPaths == {"", "ok.pem", "missing.pem", "denied.pem"}
KeyPaths == {"", "ok.pem", "dir.pem"}

JSONUpstreams(urls) ==
    [url : urls, header_name : HeaderNames, cookie_name : CookieNames]

\* the configuration files main may be started with
Configs ==
    {Malformed} \cup
    [malformed : {FALSE}, Port : Ports, SslCert : CertPaths, SslKey : KeyPaths,
     Upstreams : SeqsUpTo(JSONUpstreams(RawURLs), MaxUpstreams)]

\* the options a test of the handler builds: &AuthDelegateOptions{} plus
\* addUpstream calls with the URLs of test servers
TestURLs == {"http://127.0.0.1:1", "http://127.0.0.1:2"}

TestOptions ==
    {jsonUnmarshal(c).opts :
        c \in [malformed : {FALSE}, Port : {0}, SslCert : {""}, SslKey : {""},
               Upstreams : SeqsUpTo(JSONUpstreams(TestURLs), MaxUpstreams)]}

Methods == {"GET", "POST"}
RequestURIs == {"/bar", "/bar?quux"}
SigValues == {<<>>, <<"">>, <<"foobar">>}
OrigValues == {<<>>, <<"">>, <<"/baz?quux">>}
CookieJars == {<<>>, <<[Name |-> "_c", Value |-> ""]>>}

MakeHeader(sig, orig) ==
    [k \in (IF sig = <<>> THEN {} ELSE {"X-Sig"}) \cup
           (IF orig = <<>> THEN {} ELSE {"X-Original-Uri"}) |->
        IF k = "X-Sig" THEN sig ELSE orig]

\* the requests a server hands to the handler
Requests ==
    {[Method |-> m, RequestURI |-> t, URL |-> parseRequestURI(t),
      Header |-> MakeHeader(s, o), Cookies |-> c] :
        m \in Methods, t \in RequestURIs, s \in SigValues, o \in OrigValues,
        c \in CookieJars}

\* what an upstream may answer; ok = FALSE when the round trip fails
Answers ==
    {[ok |-> TRUE, Code |-> 202, Body |-> "accepted"],
     [ok |-> TRUE, Code |-> 401, Body |-> "denied"],
     [ok |-> FALSE, Code |-> 0, Body |-> ""]}

-----------------------------------------------------------------------------
(* main, and the calls the tests of the handler make *)

\* a goroutine of the server that is handling no request
Idle == [pc |-> "idle", req |-> <<>>, sel |-> 0, stmt |-> 0, out |-> <<>>,
         ptr |-> 0, sent |-> <<>>]

NoneInFlight == [g \in 1..MaxInFlight |-> Idle]

Init ==
    /\ pc = "main"
    /\ config \in Configs
    /\ opts = NilOpts
    /\ err = <<>>
    /\ handler = <<>>
    /\ req = <<>>
    /\ outreq = <<>>
    /\ selected = 0
    /\ upstream = <<>>
    /\ recorder = <<>>
    /\ inflight = NoneInFlight

\* main: opts, err = NewAuthDelegateOptionsFromJSON(configBytes), and
\* printErrorAndExit when err is not nil
MainOptions ==
    /\ pc = "main"
    /\ \E cookieOrder \in Orders(NameKeys(jsonUnmarshal(config).opts, "CookieName")),
          headerOrder \in Orders(NameKeys(jsonUnmarshal(config).opts, "HeaderName")) :
        \E r \in {NewAuthDelegateOptionsFromJSON(config, cookieOrder, headerOrder)} :
            /\ opts' = r.opts
            /\ err' = r.err
            /\ pc' = IF r.panic THEN "panic" ELSE IF r.err # <<>> THEN "exit" ELSE "configured"
    /\ UNCHANGED <<config, handler, req, outreq, selected, upstream, recorder, inflight>>

\* main: handler := NewAuthDelegate(opts), then the server listens
MainNewAuthDelegate ==
    /\ pc = "configured"
    /\ handler' = NewAuthDelegate(opts)
    /\ pc' = "serving"
    /\ UNCHANGED <<config, opts, err, req, outreq, selected, upstream, recorder, inflight>>

\* the server hands one request to handler.ServeHTTP, which returns
Serve ==
    /\ pc = "serving"
    /\ req = <<>>
    /\ \E r \in Requests, answer \in Answers :
        \E s \in {ServeHTTP(handler, r, answer)} :
            /\ req' = <<r>>
            /\ outreq' = s.outreq
            /\ selected' = s.selected
            /\ upstream' = s.upstream
            /\ recorder' = s.recorder
    /\ UNCHANGED <<pc, config, opts, err, handler, inflight>>

\* the request is over: the request, the response writer and the outbound
\* request are dropped; the handler is left as it was
Finish ==
    /\ pc = "serving"
    /\ req # <<>>
    /\ req' = <<>>
    /\ outreq' = <<>>
    /\ selected' = 0
    /\ upstream' = <<>>
    /\ recorder' = <<>>
    /\ UNCHANGED <<pc, config, opts, err, handler, inflight>>

Next == MainOptions \/ MainNewAuthDelegate \/ Serve \/ Finish

Spec == Init /\ [][Next]_vars

\* delegate_test.go: opts is built in place, Validate is called for its
\* parsedURL side effect with its error dropped, and the handler is built
InitTest ==
    /\ pc = "test"
    /\ config = Malformed
    /\ opts \in TestOptions
    /\ err = <<>>
    /\ handler = <<>>
    /\ req = <<>>
    /\ outreq = <<>>
    /\ selected = 0
    /\ upstream = <<>>
    /\ recorder = <<>>
    /\ inflight = NoneInFlight

TestNewAuthDelegate ==
    /\ pc = "test"
    /\ \E cookieOrder \in Orders(NameKeys(opts, "CookieName")),
          headerOrder \in Orders(NameKeys(opts, "HeaderName")) :
        \E v \in {Validate(opts, cookieOrder, headerOrder)} :
            /\ opts' = v.opts
            /\ err' = v.err
            /\ handler' = IF v.panic THEN <<>> ELSE NewAuthDelegate(v.opts)
            /\ pc' = IF v.panic THEN "panic" ELSE "serving"
    /\ UNCHANGED <<config, req, outreq, selected, upstream, recorder, inflight>>

NextTest == TestNewAuthDelegate \/ Serve \/ Finish

SpecHandler == InitTest /\ [][NextTest]_vars

-----------------------------------------------------------------------------
(* The server runs ServeHTTP in one goroutine per connection, all on the   *)
(* one handler main built.  handler[i].url is the *url.URL that the        *)
(* closure of rule i's Director captured; a write through a pointer to it  *)
(* is a write to handler.  A goroutine's record holds: pc; req, the        *)
(* inbound request; sel, the rule the range loop returned at; out, the     *)
(* outbound request, a copy of req; ptr, where out's URL field points    *)
(* (0: the request's own URL object, held in out.URL; i: handler[i].url);  *)
(* stmt, the next statement of the Director; sent, the request as the      *)
(* transport read it.                                                      *)

\* the configuration files of the concurrent runs: README's cookie, header
\* and default upstreams
ConcurrentConfigs ==
    {[malformed |-> FALSE, Port |-> 443, SslCert |-> "", SslKey |-> "", Upstreams |-> ups] :
        ups \in {<<[url |-> "http://a.test/auth", header_name |-> "", cookie_name |-> "_c"],
                   [url |-> "https://b.test/x?k=v", header_name |-> "X-Sig", cookie_name |-> ""],
                   [url |-> "http://a.test/auth", header_name |-> "", cookie_name |-> ""]>>,
                 <<[url |-> "https://b.test/x?k=v", header_name |-> "x-sig", cookie_name |-> ""],
                   [url |-> "http://a.test/auth", header_name |-> "", cookie_name |-> "_c"]>>,
                 <<[url |-> "http://a.test/auth", header_name |-> "", cookie_name |-> ""]>>}}

\* the requests that arrive while others are being handled
ConcurrentRequests ==
    {[Method |-> "GET", RequestURI |-> "/bar?quux", URL |-> parseRequestURI("/bar?quux"),
      Header |-> MakeHeader(s, o), Cookies |-> c] :
        s \in {<<>>, <<"foobar">>}, o \in {<<>>, <<"/baz?quux">>}, c \in CookieJars}

\* the Director with req.URL = url moved before director(req)
DirectorStatements_URLFirst == <<"req.URL = url", "director(req)", "X-Original-URI">>

\* the statements of the Director closure, in program order
DirectorStatements == <<"director(req)", "X-Original-URI", "req.URL = url">>

\* the URL object the outbound request of goroutine record g points to
DerefURL(h, g) == IF g.ptr = 0 THEN g.out[1].URL ELSE h[g.ptr].url

\* one statement of the Director of rule g.sel, run by g on handler h:
\* the handler and the goroutine's record afterwards
execDirector(statement, h, g) ==
    LET Written(u) ==
            \* director(req) assigns req.URL.Scheme, Host, Path and RawQuery
            \* through the pointer req.URL
            IF g.ptr = 0
            THEN [h |-> h, g |-> [g EXCEPT !.out = <<[g.out[1] EXCEPT !.URL = u]>>]]
            ELSE [h |-> [h EXCEPT ![g.ptr].url = u], g |-> g]
        Header(origURI) ==
            [h |-> h,
             g |-> IF origURI = ""
                   THEN [g EXCEPT !.out = <<[g.out[1] EXCEPT !.Header =
                            HeaderSet(g.out[1].Header, "X-Original-URI", g.out[1].RequestURI)]>>]
                   ELSE g]
    IN  CASE statement = "director(req)" ->
                Written(singleHostDirector(h[g.sel].url,
                                           [g.out[1] EXCEPT !.URL = DerefURL(h, g)]).URL)
          [] statement = "X-Original-URI" ->
                Header(HeaderGet(g.out[1].Header, "X-Original-URI"))
          [] statement = "req.URL = url" ->
                [h |-> h, g |-> [g EXCEPT !.ptr = g.sel]]

InitConcurrent ==
    /\ pc = "main"
    /\ config \in ConcurrentConfigs
    /\ opts = NilOpts
    /\ err = <<>>
    /\ handler = <<>>
    /\ req = <<>>
    /\ outreq = <<>>
    /\ selected = 0
    /\ upstream = <<>>
    /\ recorder = <<>>
    /\ inflight = NoneInFlight

\* the server accepts a request and starts goroutine g on it
GoAccept(g) ==
    /\ pc = "serving"
    /\ inflight[g].pc = "idle"
    /\ \E r \in ConcurrentRequests :
        inflight' = [inflight EXCEPT ![g] = [Idle EXCEPT !.pc = "select", !.req = <<r>>]]
    /\ UNCHANGED <<pc, config, opts, err, handler, req, outreq, selected, upstream, recorder>>

\* ServeHTTP: the range loop over h.upstreams; http.Error when it ends, else
\* upstream.proxy.ServeHTTP copies the request
GoSelect(g) ==
    /\ pc = "serving"
    /\ inflight[g].pc = "select"
    /\ \E i \in {firstAccepting(handler, inflight[g].req[1], 1)} :
        inflight' = [inflight EXCEPT ![g] =
            IF i = 0
            THEN [@ EXCEPT !.pc = "done"]
            ELSE [@ EXCEPT !.pc = "director", !.sel = i, !.stmt = 1, !.out = inflight[g].req]]
    /\ UNCHANGED <<pc, config, opts, err, handler, req, outreq, selected, upstream, recorder>>

\* the next statement of proxy.Director(outreq)
GoDirector(g) ==
    /\ pc = "serving"
    /\ inflight[g].pc = "director"
    /\ \E d \in {execDirector(DirectorStatements[inflight[g].stmt], handler, inflight[g])} :
        /\ handler' = d.h
        /\ inflight' = [inflight EXCEPT ![g] =
            IF d.g.stmt = Len(DirectorStatements)
            THEN [d.g EXCEPT !.pc = "roundtrip", !.stmt = 0]
            ELSE [d.g EXCEPT !.stmt = @ + 1]]
    /\ UNCHANGED <<pc, config, opts, err, req, outreq, selected, upstream, recorder>>

\* transport.RoundTrip(outreq) reads the outbound request and its URL
GoRoundTrip(g) ==
    /\ pc = "serving"
    /\ inflight[g].pc = "roundtrip"
    /\ inflight' = [inflight EXCEPT ![g] =
            [@ EXCEPT !.pc = "done",
                      !.sent = <<[inflight[g].out[1] EXCEPT
                                  !.URL = DerefURL(handler, inflight[g])]>>]]
    /\ UNCHANGED <<pc, config, opts, err, handler, req, outreq, selected, upstream, recorder>>

\* ServeHTTP returns and the goroutine is free again
GoReturn(g) ==
    /\ pc = "serving"
    /\ inflight[g].pc = "done"
    /\ inflight' = [inflight EXCEPT ![g] = Idle]
    /\ UNCHANGED <<pc, config, opts, err, handler, req, outreq, selected, upstream, recorder>>

NextConcurrent ==
    \/ MainOptions
    \/ MainNewAuthDelegate
    \/ \E g \in 1..MaxInFlight : GoAccept(g)
    \/ \E g \in 1..MaxInFlight : GoSelect(g)
    \/ \E g \in 1..MaxInFlight : GoDirector(g)
    \/ \E g \in 1..MaxInFlight : GoRoundTrip(g)
    \/ \E g \in 1..MaxInFlight : GoReturn(g)

SpecConcurrent == InitConcurrent /\ [][NextConcurrent]_vars

-----------------------------------------------------------------------------
(* main started with configurations long enough for several names to be   *)
(* repeated: every upstream has the same well-formed URL, the names vary.  *)

NameConfigs ==
    [malformed : {FALSE}, Port : {443}, SslCert : {""}, SslKey : {""},
     Upstreams : SeqsUpTo(JSONUpstreams({"http://a.test/auth"}), MaxNamedUpstreams)]

InitNames ==
    /\ pc = "main"
    /\ config \in NameConfigs
    /\ opts = NilOpts
    /\ err = <<>>
    /\ handler = <<>>
    /\ req = <<>>
    /\ outreq = <<>>
    /\ selected = 0
    /\ upstream = <<>>
    /\ recorder = <<>>
    /\ inflight = NoneInFlight

NextNames == MainOptions \/ MainNewAuthDelegate

SpecNames == InitNames /\ [][NextNames]_vars

-----------------------------------------------------------------------------
(* What the specification says of a request and a rule, stated on the      *)
(* request itself: a header or cookie is carried when it is present,       *)
(* whatever its value.                                                     *)

\* header names are case-insensitive; the server stores them canonicalised
CarriesHeader(r, name) == CanonicalMIMEHeaderKey(name) \in DOMAIN r.Header

CarriesCookie(r, name) == \E i \in 1..Len(r.Cookies) : r.Cookies[i].Name = name

IsDefaultRule(rule) == rule.headerName = "" /\ rule.cookieName = ""

RuleMatches(rule, r) ==
    \/ rule.headerName # "" /\ CarriesHeader(r, rule.headerName)
    \/ rule.cookieName # "" /\ CarriesCookie(r, rule.cookieName)
    \/ IsDefaultRule(rule)

Min(S) == CHOOSE x \in S : \A y \in S : x <= y

\* index of the first rule of h that matches r, 0 when none does
LowestMatching(h, r) ==
    LET M == {i \in 1..Len(h) : RuleMatches(h[i], r)} IN
    IF M = {} THEN 0 ELSE Min(M)

Accepted == pc \in {"configured", "serving"}
Validated == pc \in {"configured", "serving", "exit", "panic"} /\ ~config.malformed
Forwarded == req # <<>> /\ selected # 0 /\ outreq # <<>>

IsDefaultUpstream(u) == u.header_name = "" /\ u.cookie_name = ""

-----------------------------------------------------------------------------
(* Claims *)

\* C1: for every configuration Validate accepts, the handler's rules are the
\* upstreams in input order, and every request is forwarded to the
\* lowest-index rule matching it; a request carrying both the header of a
\* header rule and the cookie of a cookie rule goes to the earlier of the two.
C1_FirstMatchInOrder ==
    pc = "serving" =>
        /\ Len(handler) = Len(config.Upstreams)
        /\ \A i \in 1..Len(handler) :
            /\ handler[i].headerName = config.Upstreams[i].header_name
            /\ handler[i].cookieName = config.Upstreams[i].cookie_name
            /\ handler[i].url = urlParse(config.Upstreams[i].url).url
        /\ req # <<>> =>
            /\ selected = LowestMatching(handler, req[1])
            /\ \A i, j \in 1..Len(handler) :
                (/\ handler[i].headerName # ""
                 /\ handler[j].cookieName # ""
                 /\ CarriesHeader(req[1], handler[i].headerName)
                 /\ CarriesCookie(req[1], handler[j].cookieName))
                    => selected = Min({i, j})

\* C2: whenever a request was forwarded and the upstream answered, the status
\* written to the caller is the status the upstream returned.
C2_StatusRelayed ==
    (Forwarded /\ upstream[1].ok) => recorder[1].Code = upstream[1].Code

C2_Witness ==
    /\ Forwarded
    /\ upstream[1].ok
    /\ upstream[1].Code = 202
    /\ recorder[1].Code = 202

\* C3: when no rule matches the request (so no default rule is configured;
\* the rule list may be empty) the response is exactly 401 and nothing is
\* forwarded to any upstream.
C3_NoMatchUnauthorized ==
    (pc = "serving" /\ req # <<>>
        /\ \A i \in 1..Len(handler) : ~RuleMatches(handler[i], req[1]))
    => /\ recorder[1].Code = 401
       /\ selected = 0
       /\ outreq = <<>>
       /\ upstream = <<>>

C3_Witness ==
    /\ pc = "serving"
    /\ req # <<>>
    /\ Len(handler) = 2
    /\ handler[1].headerName # ""
    /\ handler[2].cookieName # ""
    /\ \A i \in 1..Len(handler) : ~RuleMatches(handler[i], req[1])
    /\ recorder[1].Code = 401
    /\ outreq = <<>>

\* C4: with a default rule configured, every request is forwarded (the
\* dispatcher never answers with its own 401), and a request that matches no
\* other rule is forwarded to the default rule's upstream.
C4_DefaultCatchesAll ==
    (pc = "serving" /\ req # <<>> /\ \E d \in 1..Len(handler) : IsDefaultRule(handler[d]))
    => /\ Forwarded
       /\ (\A i \in 1..Len(handler) :
               ~IsDefaultRule(handler[i]) => ~RuleMatches(handler[i], req[1]))
          => /\ IsDefaultRule(handler[selected])
             /\ selected = Min({d \in 1..Len(handler) : IsDefaultRule(handler[d])})
             /\ outreq[1].URL = handler[selected].url

C4_Witness ==
    /\ pc = "serving"
    /\ req # <<>>
    /\ Len(handler) = 2
    /\ handler[1].cookieName # ""
    /\ handler[1].headerName = ""
    /\ IsDefaultRule(handler[2])
    /\ ~RuleMatches(handler[1], req[1])
    /\ selected = 2
    /\ upstream[1].ok
    /\ recorder[1].Code = 202

\* C5: a rule with a header name matches a request exactly when the request
\* carries a header of that name, whatever the value (the empty string
\* included); for the first rule of the list that is: it is the selected rule
\* exactly when the request carries its header.
C5_HeaderPresenceMatches ==
    (pc = "serving" /\ req # <<>>) =>
        /\ \A i \in 1..Len(handler) :
            (handler[i].headerName # "" /\ handler[i].cookieName = "")
                => (accepts(handler[i], req[1])
                        <=> CarriesHeader(req[1], handler[i].headerName))
        /\ (Len(handler) > 0 /\ handler[1].headerName # "")
                => (selected = 1 <=> CarriesHeader(req[1], handler[1].headerName))

\* C6: a forwarded request carries X-Original-URI: the inbound path plus query
\* when the inbound request did not carry the header, and exactly the inbound
\* value(s), unchanged, when it did (whatever the value).
C6_OriginalURIRoundTrip ==
    Forwarded =>
        /\ ~CarriesHeader(req[1], "X-Original-URI")
            => /\ CarriesHeader(outreq[1], "X-Original-URI")
               /\ outreq[1].Header["X-Original-Uri"] =
                    <<req[1].URL.Path \o (IF req[1].URL.RawQuery = "" THEN ""
                                          ELSE "?" \o req[1].URL.RawQuery)>>
        /\ CarriesHeader(req[1], "X-Original-URI")
            => /\ CarriesHeader(outreq[1], "X-Original-URI")
               /\ outreq[1].Header["X-Original-Uri"] = req[1].Header["X-Original-Uri"]

\* C7, as stated: the forwarded request goes to the upstream's address with
\* the method, path and query string of the inbound request.
C7_PathAndQueryPreserved ==
    Forwarded =>
        /\ outreq[1].Method = req[1].Method
        /\ outreq[1].URL.Scheme = handler[selected].url.Scheme
        /\ outreq[1].URL.Host = handler[selected].url.Host
        /\ outreq[1].URL.Path = req[1].URL.Path
        /\ outreq[1].URL.RawQuery = req[1].URL.RawQuery

\* C7, amended: the forwarded request has the method of the inbound request,
\* and its whole URL (scheme, host, path and query string) is the URL of the
\* selected rule's upstream; the inbound path and query are not in it.
C7_URLReplacedByUpstream ==
    Forwarded =>
        /\ outreq[1].Method = req[1].Method
        /\ outreq[1].URL = handler[selected].url

C7_Witness ==
    /\ Forwarded
    /\ req[1].Method = "POST"
    /\ req[1].URL.Path = "/bar"
    /\ req[1].URL.RawQuery = "quux"
    /\ outreq[1].Method = "POST"
    /\ outreq[1].URL.Path = "/x"
    /\ outreq[1].URL.RawQuery = "k=v"

\* C8: a configuration whose only default upstream (neither header_name nor
\* cookie_name) is not the last of the list, every url of which parses, is
\* rejected with a message naming that upstream's url; so in an accepted
\* configuration a default upstream is at the last index.
C8_DefaultNotLastRejected ==
    /\ (Validated
        /\ \A i \in 1..Len(config.Upstreams) : ~urlParse(config.Upstreams[i].url).url.nil)
       => \A i \in 1..Len(config.Upstreams) :
            (/\ i < Len(config.Upstreams)
             /\ IsDefaultUpstream(config.Upstreams[i])
             /\ \A k \in 1..Len(config.Upstreams) :
                    IsDefaultUpstream(config.Upstreams[k]) => k = i)
            => /\ pc = "exit"
               /\ \E m \in 2..Len(err) :
                    err[m] = "upstream without header_name or cookie_name not last in upstream list: "
                                \o config.Upstreams[i].url
    /\ Accepted =>
        \A i \in 1..Len(config.Upstreams) :
            IsDefaultUpstream(config.Upstreams[i]) => i = Len(config.Upstreams)

\* C9: whenever two upstreams have the same non-empty header_name, whatever
\* the other fields are, Validate returns an error with the message "repeated
\* header names:" listing that name (likewise cookie_name and "repeated cookie
\* names:"); so no accepted configuration has two rules sharing a match key.
C9_RepeatedNamesRejected ==
    Validated =>
        \A i, j \in 1..Len(config.Upstreams) :
            i < j =>
                /\ (/\ config.Upstreams[i].header_name # ""
                    /\ config.Upstreams[i].header_name = config.Upstreams[j].header_name)
                   => /\ pc = "exit"
                      /\ \E m \in 2..Len(err) :
                            err[m] = "repeated header names: " \o config.Upstreams[i].header_name
                /\ (/\ config.Upstreams[i].cookie_name # ""
                    /\ config.Upstreams[i].cookie_name = config.Upstreams[j].cookie_name)
                   => /\ pc = "exit"
                      /\ \E m \in 2..Len(err) :
                            err[m] = "repeated cookie names: " \o config.Upstreams[i].cookie_name

SslSettingsValid(c) ==
    \/ c.SslCert = "" /\ c.SslKey = ""
    \/ /\ c.SslCert # "" /\ c.SslKey # ""
       /\ osStat(c.SslCert) = "regular" /\ osStat(c.SslKey) = "regular"

-----------------------------------------------------------------------------
(* The messages the validation rules call for, rule by rule, written from  *)
(* the rules themselves: what a validation that collects every applicable  *)
(* error reports for a configuration.                                      *)

PortMessages(c) ==
    IF c.Port <= 0 THEN <<"port must be specified and greater than zero">> ELSE <<>>

PathMessages(name, path) ==
    IF path = "" \/ osStat(path) = "regular" THEN <<>>
    ELSE IF osStat(path) = "notexist" THEN <<name \o " does not exist: " \o path>>
    ELSE IF osStat(path) = "permission" THEN <<name \o " permission is denied: " \o path>>
    ELSE <<name \o " is not a regular file: " \o path>>

TlsMessages(c) ==
    (IF (c.SslCert = "") # (c.SslKey = "")
     THEN <<"ssl-cert and ssl-key must both be specified, or neither must be">>
     ELSE <<>>)
    \o PathMessages("ssl-cert", c.SslCert) \o PathMessages("ssl-key", c.SslKey)

UpstreamMessages(u) ==
    (IF urlParse(u.url).url.nil
     THEN <<"upstream URL failed to parse" \o urlParse(u.url).err>>
     ELSE IF urlParse(u.url).url.Scheme = ""
     THEN <<"upstream scheme not specified: " \o u.url>>
     ELSE IF urlParse(u.url).url.Scheme \notin {"http", "https"}
     THEN <<"invalid upstream scheme: " \o u.url>>
     ELSE <<>>)
    \o (IF u.header_name # "" /\ u.cookie_name # ""
        THEN <<"both header_name and cookie_name defined: " \o u.url>>
        ELSE <<>>)

RECURSIVE PerUpstreamMessages(_, _)
\* the messages of the upstreams from index i on, in list order
PerUpstreamMessages(ups, i) ==
    IF i > Len(ups) THEN <<>>
    ELSE UpstreamMessages(ups[i]) \o PerUpstreamMessages(ups, i + 1)

\* byte order of the names in use, as sort.Strings would order them
NameRank(name) ==
    CASE name = ""      -> 0
      [] name = "X-Sig" -> 1
      [] name = "_c"    -> 2
      [] name = "x-sig" -> 3

RECURSIVE SortedNames(_)
SortedNames(S) ==
    IF S = {} THEN <<>>
    ELSE LET least == CHOOSE n \in S : \A m \in S : NameRank(n) <= NameRank(m)
         IN  <<least>> \o SortedNames(S \ {least})

\* the non-empty names that more than one upstream carries in the field
RepeatedNames(ups, field) ==
    {ups[i][field] : i \in 1..Len(ups)} \cap
    {n \in HeaderNames \cup CookieNames :
        /\ n # ""
        /\ Cardinality({i \in 1..Len(ups) : ups[i][field] = n}) > 1}

RepeatedMessages(category, ups, field) ==
    IF RepeatedNames(ups, field) = {} THEN <<>>
    ELSE <<"repeated " \o category \o ": "
            \o Join(SortedNames(RepeatedNames(ups, field)), ", ")>>

DefaultMessages(ups) ==
    LET D == {i \in 1..Len(ups) : ups[i].header_name = "" /\ ups[i].cookie_name = ""}
    IN  IF Cardinality(D) > 1
        THEN <<"multiple upstreams without header_name or cookie_name">>
        ELSE IF \E i \in D : ups[i].url # ups[Len(ups)].url
        THEN <<"upstream without header_name or cookie_name not last in upstream list: "
                \o ups[CHOOSE i \in D : TRUE].url>>
        ELSE <<>>

\* every message due for configuration c: port, then TLS, then upstreams
\* (each upstream in list order, then repeated names, then default placement)
RuleMessages(c) ==
    PortMessages(c) \o TlsMessages(c) \o
    (IF Len(c.Upstreams) = 0 THEN <<"no upstreams defined">>
     ELSE PerUpstreamMessages(c.Upstreams, 1)
          \o RepeatedMessages("cookie names", c.Upstreams, "cookie_name")
          \o RepeatedMessages("header names", c.Upstreams, "header_name")
          \o DefaultMessages(c.Upstreams))

\* C11: Validate never fails fast: it always runs the port check, then the
\* TLS checks, then the upstream checks, and the single aggregated error
\* holds the message of every violated rule, port messages before TLS
\* messages before upstream messages (each upstream in list order, then the
\* repeated-name messages, then the default-placement message); a
\* configuration with no violated rule is accepted.
C11_EveryMessageInOrder ==
    Validated =>
        IF RuleMessages(config) = <<>>
        THEN Accepted /\ err = <<>>
        ELSE pc = "exit" /\ err = <<"Invalid options:">> \o RuleMessages(config)

\* C12: when an upstream's URL fails to parse, Validate appends a message
\* that begins "upstream URL failed to parse" and ends with the parse error,
\* goes on with the remaining checks and upstreams and returns the aggregated
\* error; validation of a configuration always ends in success or in an
\* aggregated error, never in an abort.
C12_ParseFailureReported ==
    Validated =>
        /\ pc # "panic"
        /\ \A i \in 1..Len(config.Upstreams) :
            urlParse(config.Upstreams[i].url).url.nil
            => /\ pc = "exit"
               /\ \E m \in 2..Len(err) :
                    err[m] = "upstream URL failed to parse"
                                \o urlParse(config.Upstreams[i].url).err

\* Validate returns an error for the configuration file: some message was
\* emitted (which messages are emitted does not depend on the map orders)
ValidateEmitsMessage(c) ==
    \E cookieOrder \in Orders(NameKeys(jsonUnmarshal(c).opts, "CookieName")),
       headerOrder \in Orders(NameKeys(jsonUnmarshal(c).opts, "HeaderName")) :
        Validate(jsonUnmarshal(c).opts, cookieOrder, headerOrder).err # <<>>

HandledAlone(g) ==
    ServeHTTP(NewAuthDelegate(opts), g.req[1], [ok |-> TRUE, Code |-> 202, Body |-> "accepted"])

\* C14: under any interleaving of requests handled at the same time on the
\* one shared handler, ServeHTTP never modifies the rule table or a rule's
\* upstream address, and each request's selected rule, forwarded destination
\* and forwarded X-Original-URI value are those of the request handled alone.
C14_ConcurrentAsAlone ==
    pc = "serving" =>
        /\ handler = NewAuthDelegate(opts)
        /\ \A g \in 1..MaxInFlight :
            inflight[g].pc = "done" =>
                /\ inflight[g].sel = HandledAlone(inflight[g]).selected
                /\ inflight[g].sel = 0 => inflight[g].sent = <<>>
                /\ inflight[g].sel # 0 =>
                    /\ inflight[g].sent # <<>>
                    /\ inflight[g].sent[1].URL = HandledAlone(inflight[g]).outreq[1].URL
                    /\ HeaderGet(inflight[g].sent[1].Header, "X-Original-URI")
                        = HeaderGet(HandledAlone(inflight[g]).outreq[1].Header, "X-Original-URI")

\* two requests forwarded to the same rule, one finished while the other is
\* still inside the Director
C14_Witness ==
    /\ pc = "serving"
    /\ inflight[1].pc = "done"
    /\ inflight[2].pc = "director"
    /\ inflight[2].stmt = 2
    /\ inflight[1].sel = 2
    /\ inflight[2].sel = 2
    /\ inflight[1].req # inflight[2].req
    /\ inflight[1].sent[1].URL = handler[2].url

\* every text a message listing repeated names of the category could have
RepeatedTexts(category) ==
    {"repeated " \o category \o ": " \o Join(o, ", ") :
        o \in UNION {Orders(S) : S \in (SUBSET (HeaderNames \cup CookieNames)) \ {{}}}}

\* C15: when several distinct header names (or cookie names) each appear on
\* more than one upstream, the error holds a single "repeated header names:"
\* (or "repeated cookie names:") message that lists exactly the repeated
\* non-empty names, each once, comma-joined in sorted order, so that the
\* text is the same each time the input is validated; the empty name is
\* never listed, and there is no such message when no name is repeated.
C15_RepeatedNamesSorted ==
    Validated =>
        /\ Range(err) \cap RepeatedTexts("header names")
            = Range(RepeatedMessages("header names", config.Upstreams, "header_name"))
        /\ Range(err) \cap RepeatedTexts("cookie names")
            = Range(RepeatedMessages("cookie names", config.Upstreams, "cookie_name"))
        /\ Cardinality({m \in 1..Len(err) : err[m] \in RepeatedTexts("header names")}) <= 1
        /\ Cardinality({m \in 1..Len(err) : err[m] \in RepeatedTexts("cookie names")}) <= 1

\* C16: in every configuration accepted by Validate every rule is reachable:
\* for each rule index i there is a request that ServeHTTP forwards to rule
\* i; no accepted rule is shadowed for good by an earlier rule, neither by an
\* earlier default rule nor by an earlier header rule whose name names the
\* same header.
C16_EveryRuleReachable ==
    pc = "serving" =>
        \A i \in 1..Len(handler) :
            \E r \in Requests, answer \in Answers :
                ServeHTTP(handler, r, answer).selected = i

====
